---- MODULE Spec2Model ----
(***************************************************************************)
(* Document ingestion pipeline of the knowledge base: the upload and       *)
(* reprocess handlers (app/api/knowledge.py), the background task and the  *)
(* orchestrator DocumentProcessor.process_document                         *)
(* (app/services/document_processor.py), and the Elasticsearch index       *)
(* writes of ElasticsearchRetriever (app/core/rag/retriever.py).           *)
(*                                                                         *)
(* One action is one stretch of code between two suspension points of the  *)
(* asyncio event loop; a relational transaction takes effect at its        *)
(* commit.  Collaborators (parser, embedding provider, index engine,       *)
(* relational store) answer nondeterministically: they return or raise.    *)
(***************************************************************************)
EXTENDS Integers, Sequences, FiniteSets, Bags, TLC

\* ---- bounds of the model ----
MaxDocs == 2
MaxKbs == 1
MaxChunks == 2
MaxTasks == 3

DocIds == 1..MaxDocs
KbIds == 1..MaxKbs
TaskIds == 1..MaxTasks

NoRow == [status |-> "absent"]

\* Stored files, by what the parser and the splitter make of them: an empty
\* text, a text made of separators only (non-empty, split into no chunk), or
\* a text split into chunks >= 1 chunks.
Files ==
    {[text |-> "empty", chunks |-> 0], [text |-> "separators", chunks |-> 0]}
        \cup {[text |-> "content", chunks |-> n] : n \in 1..MaxChunks}

\* str(e) of an exception
StrE == "error"

EmptyContentMsg == "empty_content"
EmptyChunksMsg == "empty_chunks"

\* Settings (app/config.py), the fields that choose the embedder and the
\* vector width of the indexes
DefaultSettings ==
    [embedding_provider |-> "aliyun",
     embedding_deploy_mode |-> "api",
     embedding_model_name |-> "text-embedding-v3",
     embedding_dimension |-> 1024]

SettingsSet ==
    [embedding_provider : {"aliyun", "openai", "local"},
     embedding_deploy_mode : {"api", "local"},
     embedding_model_name : {"text-embedding-v3", "text-embedding-3-small"},
     embedding_dimension : {1024, 1536}]

\* the model names that contain "small"
SmallModels == {"text-embedding-3-small"}

\* EmbeddingService.dimension: the dimension of the embedder get_embedder
\* creates.  OpenAIEmbedder derives it from the model name, the others take
\* settings.embedding_dimension.
Dimension(s) ==
    IF s.embedding_deploy_mode = "local" THEN s.embedding_dimension
    ELSE IF s.embedding_provider = "aliyun" THEN s.embedding_dimension
    ELSE IF s.embedding_provider = "openai"
         THEN IF s.embedding_model_name \in SmallModels THEN 1536
              ELSE 3072
    ELSE s.embedding_dimension

\* retriever.vector_dimension
VectorDimension(s) == s.embedding_dimension

\* EmbedderConfig.max_retries
max_retries == 3

\* What the index holds for one query: for each entry the similarity of its
\* vector to the query vector (vs) and the score of the lexical match of its
\* content against the query text (ts, 0: no match), in tenths, and the
\* document it belongs to.
MaxItems == 3
MaxTopK == 3
ItemIds == 1..MaxItems
VectorScores == {3, 8}
TextScores == {0, 6}
ItemAttrs == [vs : VectorScores, ts : TextScores, document_id : DocIds]
ItemSets == [ItemIds -> ItemAttrs]

\* no search or question-answering call is in progress
NoRequest == [op |-> "none", pc |-> "idle"]

VARIABLES
    documents,        \* table documents: id -> row
    next_doc_id,      \* autoincrement of documents.id
    document_chunks,  \* table document_chunks: a bag of rows
    es_indices,       \* the indexes: knowledge base and vector width
    es_docs,          \* entries of all indices
    tasks,            \* background tasks process_document_task
    first_ingest,     \* history: what the first completed ingestion left
    knowledge_bases,  \* table knowledge_bases: the ids of its rows
    document_count,   \* knowledge_bases.document_count, by id
    settings,         \* the settings of the deployment
    query_items,      \* what the index holds for the query of the calls
    request,          \* the search or question-answering call in progress
    llm_calls         \* calls of the generation collaborator made for it

\* the relational tables and the index written by ingestion
ingest_vars == <<documents, next_doc_id, document_chunks, es_indices, es_docs,
                 tasks, first_ingest>>

kb_vars == <<knowledge_bases, document_count>>

config_vars == <<settings>>

query_vars == <<query_items, request, llm_calls>>

vars == <<ingest_vars, kb_vars, config_vars, query_vars>>

\* doc_id, kb_id, file: the arguments of process_document_task (file is the
\* file at file_path); parsed: the text the parser returned; chunks, embeddings: len() of the lists of that name;
\* exc: the message of the exception being handled, or the message of a
\* failed return
NoFile == [text |-> "none", chunks |-> 0]

IdleTask ==
    [pc |-> "idle", doc_id |-> 0, kb_id |-> 0, file |-> NoFile,
     parsed |-> "none",
     chunks |-> 0, embeddings |-> 0, exc |-> ""]

NewTask(doc_id, kb_id, file) ==
    [IdleTask EXCEPT !.pc = "poll", !.doc_id = doc_id, !.kb_id = kb_id,
                     !.file = file]

\* the run has returned or raised: its arguments and local variables are gone
Finished(task) == [IdleTask EXCEPT !.pc = "done"]

\* an exception reaches the except clause of process_document, which reads
\* str(e) and doc_id only
Raised(task, msg) ==
    [task EXCEPT !.pc = "except", !.exc = msg, !.chunks = 0, !.embeddings = 0]

Min(a, b) == IF a <= b THEN a ELSE b

DigitChars == <<"0", "1", "2", "3", "4", "5", "6", "7", "8", "9">>

\* str(n) of a natural number, as the sequence of its decimal digits
RECURSIVE IntToStr(_)
IntToStr(n) ==
    IF n < 10 THEN <<DigitChars[n + 1]>>
    ELSE IntToStr(n \div 10) \o <<DigitChars[(n % 10) + 1]>>

\* an entry id made of the chunk index alone
EsIdOfChunkOnly(doc_id, i) == IntToStr(i)

\* f"{doc_id}_{i}"
EsId(doc_id, i) == IntToStr(doc_id) \o <<"_">> \o IntToStr(i)

RowExists(d) == documents[d].status # "absent"
Visible(d) == RowExists(d) /\ documents[d].committed

FreeTasks == {t \in TaskIds : tasks[t].pc = "idle"}
FreeTask == CHOOSE t \in FreeTasks : \A u \in FreeTasks : t <= u

\* the rows of bag rows that belong to document d, and the other rows
RowsOf(rows, d) ==
    [r \in {x \in DOMAIN rows : x.document_id = d} |-> rows[r]]
RowsNotOf(rows, d) ==
    [r \in {x \in DOMAIN rows : x.document_id # d} |-> rows[r]]

ChunkRowsOf(d) == RowsOf(document_chunks, d)
EntriesOf(d) == {e \in es_docs : e.document_id = d}

\* nothing has been uploaded and no task runs
IngestInit ==
    /\ documents = [d \in DocIds |-> NoRow]
    /\ next_doc_id = 1
    /\ document_chunks = EmptyBag
    /\ es_indices = {}
    /\ es_docs = {}
    /\ tasks = [t \in TaskIds |-> IdleTask]
    /\ first_ingest = [d \in DocIds |-> [set |-> FALSE]]
    /\ knowledge_bases = KbIds
    /\ document_count = [kb_id \in KbIds |-> 0]

Init ==
    /\ IngestInit
    /\ settings = DefaultSettings
    /\ query_items = CHOOSE items \in ItemSets : TRUE
    /\ request = NoRequest
    /\ llm_calls = 0

\* upload_document (a request with one file) up to session.flush() and
\* asyncio.create_task: the session loads the row of the knowledge base, the
\* row of the document is inserted in the still open transaction and the
\* task is created.  kb_document_count is kb.document_count as the session
\* of the request has loaded it.
UploadDocument(kb_id, file) ==
    /\ kb_id \in knowledge_bases
    /\ next_doc_id \in DocIds
    /\ FreeTasks # {}
    /\ documents' = [documents EXCEPT ![next_doc_id] =
            [status |-> "pending", kb_id |-> kb_id, chunk_count |-> 0,
             error_message |-> "", file |-> file, committed |-> FALSE,
             kb_document_count |-> document_count[kb_id]]]
    /\ next_doc_id' = next_doc_id + 1
    /\ tasks' = [tasks EXCEPT ![FreeTask] = NewTask(next_doc_id, kb_id, file)]
    /\ UNCHANGED <<document_chunks, es_indices, es_docs, first_ingest>>
    /\ UNCHANGED <<kb_vars, config_vars, query_vars>>

\* upload_document, lines 395-398: kb.document_count is set to the loaded
\* value plus the number of files, and session.commit() writes it and makes
\* the row of the document visible to other sessions.  The session and its
\* objects end with the request.
UploadCommit(d) ==
    /\ RowExists(d)
    /\ ~documents[d].committed
    /\ documents' = [documents EXCEPT ![d].committed = TRUE,
                                      ![d].kb_document_count = 0]
    /\ document_count' = [document_count EXCEPT ![documents[d].kb_id] =
                            documents[d].kb_document_count + 1]
    /\ UNCHANGED <<next_doc_id, document_chunks, es_indices, es_docs, tasks,
                   first_ingest>>
    /\ UNCHANGED <<knowledge_bases, config_vars, query_vars>>

\* reprocess_document, lines 566-578: retriever.delete_document is called
\* once per old entry id, but ElasticsearchRetriever defines no such method
\* (only delete_by_document): each call raises AttributeError, which the bare
\* except swallows, and the index is left as it was.
DeleteOldEntries(entries, kb_id, doc_id, chunk_count) == entries

\* reprocess_document: one transaction deletes the chunk rows, sets the row
\* to processing with chunk_count 0 and commits; then the task is created.
\* There is no check of the current status.
ReprocessDocument(d) ==
    /\ Visible(d)
    /\ FreeTasks # {}
    /\ document_chunks' = RowsNotOf(document_chunks, d)
    /\ es_docs' = DeleteOldEntries(es_docs, documents[d].kb_id, d,
                                   documents[d].chunk_count)
    /\ documents' = [documents EXCEPT ![d].status = "processing",
                                      ![d].chunk_count = 0]
    /\ tasks' = [tasks EXCEPT ![FreeTask] = NewTask(d, documents[d].kb_id,
                                                  documents[d].file)]
    /\ UNCHANGED <<next_doc_id, es_indices, first_ingest>>
    /\ UNCHANGED <<kb_vars, config_vars, query_vars>>

\* _update_status: UPDATE documents SET status, [error_message] WHERE id =
\* doc_id, then commit.  It changes no row when the row is gone.
UpdateStatus(docs, d, status, error_message) ==
    IF docs[d].status = "absent" THEN docs
    ELSE [docs EXCEPT ![d].status = status,
                      ![d].error_message =
                          IF error_message # "" THEN error_message ELSE @]

\* process_document_task, lines 221-234: the task looks the row up, up to 10
\* times with a sleep in between, and then calls process_document whether or
\* not a lookup has found the row: the loop writes nothing and its outcome is
\* not used, it only delays the run.
PollDocument(t) ==
    /\ tasks[t].pc = "poll"
    /\ tasks' = [tasks EXCEPT ![t].pc = "select"]
    /\ UNCHANGED <<documents, next_doc_id, document_chunks, es_indices,
                   es_docs, first_ingest>>
    /\ UNCHANGED <<kb_vars, config_vars, query_vars>>

\* process_document, lines 86-92: the row is looked up; without a row the
\* run returns and writes nothing.
SelectDocument(t, db_ok) ==
    /\ tasks[t].pc = "select"
    /\ tasks' = [tasks EXCEPT ![t] =
            IF ~db_ok THEN Raised(@, StrE)
            ELSE IF Visible(tasks[t].doc_id)
                 THEN [@ EXCEPT !.pc = "set_processing"]
                 ELSE Finished(@)]
    /\ UNCHANGED <<documents, next_doc_id, document_chunks, es_indices,
                   es_docs, first_ingest>>
    /\ UNCHANGED <<kb_vars, config_vars, query_vars>>

\* what process_document does with the parsed file after a status update has
\* returned, lines 100-117: parser.parse and splitter.split run without a
\* suspension point up to the next await, which is _update_status(failed,
\* message) or the embedding call.
AfterParse(task, file, raised) ==
    IF raised THEN Raised(task, StrE)
    ELSE IF file.text = "empty"
         THEN [task EXCEPT !.pc = "fail_return", !.parsed = file.text,
                           !.exc = EmptyContentMsg]
    ELSE IF file.chunks = 0
         THEN [task EXCEPT !.pc = "fail_return", !.parsed = file.text,
                           !.exc = EmptyChunksMsg]
    ELSE [task EXCEPT !.pc = "embed", !.parsed = file.text,
                      !.chunks = file.chunks]

\* process_document, lines 98-117: _update_status(processing), then parse
\* and split.
SetProcessing(t, db_ok, raised) ==
    /\ tasks[t].pc = "set_processing"
    /\ IF db_ok
       THEN /\ documents' = UpdateStatus(documents, tasks[t].doc_id,
                                         "processing", "")
            /\ tasks' = [tasks EXCEPT ![t] =
                    AfterParse(@, tasks[t].file, raised)]
       ELSE /\ tasks' = [tasks EXCEPT ![t] = Raised(@, StrE)]
            /\ UNCHANGED documents
    /\ UNCHANGED <<next_doc_id, document_chunks, es_indices, es_docs,
                   first_ingest>>
    /\ UNCHANGED <<kb_vars, config_vars, query_vars>>

\* process_document, lines 106 and 116: _update_status(failed, message) and
\* return, inside the try block.
FailReturn(t, db_ok) ==
    /\ tasks[t].pc = "fail_return"
    /\ IF db_ok
       THEN /\ documents' = UpdateStatus(documents, tasks[t].doc_id, "failed",
                                         tasks[t].exc)
            /\ tasks' = [tasks EXCEPT ![t] = Finished(@)]
       ELSE /\ tasks' = [tasks EXCEPT ![t] = Raised(@, StrE)]
            /\ UNCHANGED documents
    /\ UNCHANGED <<next_doc_id, document_chunks, es_indices, es_docs,
                   first_ingest>>
    /\ UNCHANGED <<kb_vars, config_vars, query_vars>>

\* process_document, lines 119-125, and EmbeddingService.embed_batch: one
\* call of the provider per batch.  failures is the number of calls the
\* provider fails before it answers: the first failure leaves embed_batch.
\* The provider answers with m vectors for the n texts (results are built
\* from data.get("data", []), whatever its length).
EmbedBatch(t, failures, m) ==
    /\ tasks[t].pc = "embed"
    /\ m \in 0..tasks[t].chunks
    /\ tasks' = [tasks EXCEPT ![t] =
            IF failures > 0 THEN Raised(@, StrE)
            ELSE [@ EXCEPT !.pc = "create_index", !.embeddings = m]]
    /\ UNCHANGED <<documents, next_doc_id, document_chunks, es_indices,
                   es_docs, first_ingest>>
    /\ UNCHANGED <<kb_vars, config_vars, query_vars>>

\* the index of knowledge base kb_id exists
IndexExists(kb_id) == \E x \in es_indices : x.kb_id = kb_id

\* the vector width ("dims") of the index of knowledge base kb_id
IndexDims(kb_id) == (CHOOSE x \in es_indices : x.kb_id = kb_id).dims

\* ElasticsearchRetriever.create_index, lines 68-78, called at line 129:
\* when client.indices.exists answers that the index exists, create_index
\* returns; when it answers that it does not, or raises, create_index goes
\* on to create the index.
CreateIndexExists(t, raised) ==
    /\ tasks[t].pc = "create_index"
    /\ tasks' = [tasks EXCEPT ![t].pc =
            IF ~raised /\ IndexExists(tasks[t].kb_id) THEN "bulk_index"
            ELSE "indices_create"]
    /\ UNCHANGED <<documents, next_doc_id, document_chunks, es_indices,
                   es_docs, first_ingest>>
    /\ UNCHANGED <<kb_vars, config_vars, query_vars>>

\* ElasticsearchRetriever.create_index, lines 80-147: client.indices.create
\* with the ik analyzers and, when that raises, with the standard analyzer;
\* when that raises too, create_index raises.  The engine rejects both
\* requests when the index exists.  The index is created with
\* dims = self.vector_dimension.
CreateIndexCreate(t, raised) ==
    /\ tasks[t].pc = "indices_create"
    /\ IF raised \/ IndexExists(tasks[t].kb_id)
       THEN /\ tasks' = [tasks EXCEPT ![t] = Raised(@, StrE)]
            /\ UNCHANGED es_indices
       ELSE /\ tasks' = [tasks EXCEPT ![t].pc = "bulk_index"]
            /\ es_indices' = es_indices \cup
                    {[kb_id |-> tasks[t].kb_id,
                      dims |-> VectorDimension(settings)]}
    /\ UNCHANGED <<documents, next_doc_id, document_chunks, es_docs,
                   first_ingest>>
    /\ UNCHANGED <<kb_vars, config_vars, query_vars>>

\* process_document, lines 132-145: one entry per pair of zip(chunks,
\* embeddings), which stops at the shorter of the two.  created_at is the
\* time of the bulk_index call, named here by the task that makes the call
\* (a task makes one call).
EsDocuments(doc_id, kb_id, chunks, embeddings, now) ==
    {[kb_id |-> kb_id, id |-> EsId(doc_id, i), document_id |-> doc_id,
      chunk_index |-> i, created_at |-> now] :
        i \in 0..(Min(chunks, embeddings) - 1)}

\* client.bulk with "index" operations: an accepted entry replaces the entry
\* of the same _id in the same index.
BulkUpsert(entries, accepted) ==
    {e \in entries :
        ~\E a \in accepted : a.kb_id = e.kb_id /\ a.id = e.id} \cup accepted

\* ElasticsearchRetriever.bulk_index, called at line 147: the engine raises,
\* or accepts some of the entries (it rejects a request without operations,
\* and every entry whose vector has not the width of the index); the
\* returned success count is not read by process_document.
BulkIndex(t, raised, acc) ==
    /\ tasks[t].pc = "bulk_index"
    /\ Min(tasks[t].chunks, tasks[t].embeddings) = 0 => raised
    /\ Dimension(settings) # IndexDims(tasks[t].kb_id) => acc = {}
    /\ LET docs == EsDocuments(tasks[t].doc_id, tasks[t].kb_id,
                               tasks[t].chunks, tasks[t].embeddings, t)
       IN /\ acc \subseteq {e.chunk_index : e \in docs}
          /\ IF raised
             THEN /\ tasks' = [tasks EXCEPT ![t] = Raised(@, StrE)]
                  /\ UNCHANGED es_docs
             ELSE /\ tasks' = [tasks EXCEPT ![t].pc = "persist"]
                  /\ es_docs' = BulkUpsert(es_docs,
                                    {e \in docs : e.chunk_index \in acc})
    /\ UNCHANGED <<documents, next_doc_id, document_chunks, es_indices,
                   first_ingest>>
    /\ UNCHANGED <<kb_vars, config_vars, query_vars>>

\* process_document, lines 151-163: one row per pair of zip(chunks,
\* embeddings)
NewChunkRows(doc_id, chunks, embeddings) ==
    SetToBag({[document_id |-> doc_id, chunk_index |-> i] :
                i \in 0..(Min(chunks, embeddings) - 1)})

\* what a document looks like from outside: its chunk_count, its chunk rows
\* and the ids of its index entries
DocSnapshot(docs, rows, entries, d) ==
    [set |-> TRUE,
     chunk_count |-> docs[d].chunk_count,
     rows |-> RowsOf(rows, d),
     entries |-> {<<e.kb_id, e.id>> : e \in {x \in entries : x.document_id = d}}]

\* history: the snapshot of document d at the step that completes it for the
\* first time
RecordFirstIngest(d) ==
    first_ingest' =
        IF first_ingest[d].set THEN first_ingest
        ELSE [first_ingest EXCEPT ![d] =
                DocSnapshot(documents', document_chunks', es_docs', d)]

\* process_document, lines 150-177: the chunk rows and the update of the row
\* to completed with chunk_count = len(chunks) commit together; a failure
\* (the file's stat, the flush, the commit) leaves none of them.
PersistAndComplete(t, db_ok) ==
    /\ tasks[t].pc = "persist"
    /\ LET d == tasks[t].doc_id IN
       IF db_ok /\ RowExists(d)
       THEN /\ document_chunks' = document_chunks (+)
                    NewChunkRows(d, tasks[t].chunks, tasks[t].embeddings)
            /\ documents' = [documents EXCEPT ![d].status = "completed",
                                              ![d].chunk_count = tasks[t].chunks]
            /\ tasks' = [tasks EXCEPT ![t] = Finished(@)]
            /\ es_docs' = es_docs
            /\ RecordFirstIngest(d)
       ELSE /\ tasks' = [tasks EXCEPT ![t] = Raised(@, StrE)]
            /\ UNCHANGED <<documents, document_chunks, es_docs, first_ingest>>
    /\ UNCHANGED <<next_doc_id, es_indices>>
    /\ UNCHANGED <<kb_vars, config_vars, query_vars>>

\* process_document, lines 180-184: rollback, _update_status(failed, str(e)),
\* raise.  Nothing is deleted from the index.  When the update itself raises,
\* the exception leaves the handler and process_document_task logs it.  The
\* UPDATE of a row that its inserting transaction has not committed yet waits
\* for that commit.
ExceptHandler(t, db_ok) ==
    /\ tasks[t].pc = "except"
    /\ RowExists(tasks[t].doc_id) => Visible(tasks[t].doc_id)
    /\ IF db_ok
       THEN /\ documents' = UpdateStatus(documents, tasks[t].doc_id, "failed",
                                         tasks[t].exc)
            /\ tasks' = [tasks EXCEPT ![t] = Finished(@)]
       ELSE /\ tasks' = [tasks EXCEPT ![t] = Finished(@)]
            /\ UNCHANGED documents
    /\ UNCHANGED <<next_doc_id, document_chunks, es_indices, es_docs,
                   first_ingest>>
    /\ UNCHANGED <<kb_vars, config_vars, query_vars>>

Step(t) ==
    \/ PollDocument(t)
    \/ \E db_ok \in BOOLEAN : SelectDocument(t, db_ok)
    \/ \E db_ok \in BOOLEAN, raised \in BOOLEAN : SetProcessing(t, db_ok, raised)
    \/ \E db_ok \in BOOLEAN : FailReturn(t, db_ok)
    \/ \E failures \in 0..max_retries, m \in 0..MaxChunks :
            EmbedBatch(t, failures, m)
    \/ \E raised \in BOOLEAN : CreateIndexExists(t, raised)
    \/ \E raised \in BOOLEAN : CreateIndexCreate(t, raised)
    \/ \E raised \in BOOLEAN, acc \in SUBSET (0..(MaxChunks - 1)) :
            BulkIndex(t, raised, acc)
    \/ \E db_ok \in BOOLEAN : PersistAndComplete(t, db_ok)
    \/ \E db_ok \in BOOLEAN : ExceptHandler(t, db_ok)

Next ==
    \/ \E kb_id \in KbIds, file \in Files : UploadDocument(kb_id, file)
    \/ \E d \in DocIds : UploadCommit(d)
    \/ \E d \in DocIds : ReprocessDocument(d)
    \/ \E t \in TaskIds : Step(t)

Spec == Init /\ [][Next]_vars

\* a step of task t during which the relational store answers every request
StepDbOk(t) ==
    \/ PollDocument(t)
    \/ SelectDocument(t, TRUE)
    \/ \E raised \in BOOLEAN : SetProcessing(t, TRUE, raised)
    \/ FailReturn(t, TRUE)
    \/ \E failures \in 0..max_retries, m \in 0..MaxChunks :
            EmbedBatch(t, failures, m)
    \/ \E raised \in BOOLEAN : CreateIndexExists(t, raised)
    \/ \E raised \in BOOLEAN : CreateIndexCreate(t, raised)
    \/ \E raised \in BOOLEAN, acc \in SUBSET (0..(MaxChunks - 1)) :
            BulkIndex(t, raised, acc)
    \/ PersistAndComplete(t, TRUE)
    \/ ExceptHandler(t, TRUE)

\* uploads and their runs, with a relational store that answers
NextLive ==
    \/ \E kb_id \in KbIds, file \in Files : UploadDocument(kb_id, file)
    \/ \E d \in DocIds : UploadCommit(d)
    \/ \E t \in TaskIds : StepDbOk(t)

\* the event loop runs every task that can take a step, and an upload
\* request that has flushed its rows goes on to its commit
Fairness ==
    /\ \A t \in TaskIds : WF_vars(StepDbOk(t))
    /\ \A d \in DocIds : WF_vars(UploadCommit(d))

SpecLive == Init /\ [][NextLive]_vars /\ Fairness

\* reprocess requests issued one after another: a request is made only when
\* no task of the document is pending or running
NoTaskOf(d) ==
    \A t \in TaskIds : tasks[t].pc \in {"idle", "done"} \/ tasks[t].doc_id # d

\* reprocess_document, requested when the document's runs have ended
ReprocessDocumentSeq(d) == NoTaskOf(d) /\ ReprocessDocument(d)

NextSeq ==
    \/ \E kb_id \in KbIds, file \in Files : UploadDocument(kb_id, file)
    \/ \E d \in DocIds : UploadCommit(d)
    \/ \E d \in DocIds : ReprocessDocumentSeq(d)
    \/ \E t \in TaskIds : Step(t)

SpecSeq == Init /\ [][NextSeq]_vars

\* the rows of a bag of chunk rows that belong to none of the documents ds
RowsNotIn(rows, ds) ==
    [r \in {x \in DOMAIN rows : x.document_id \notin ds} |-> rows[r]]

Max(a, b) == IF a >= b THEN a ELSE b

\* delete_document: the chunk rows and the row of the document are deleted
\* and kb.document_count, loaded after that, is lowered by one; the
\* transaction commits when the request ends.  The index is not touched.
DeleteDocument(kb_id, d) ==
    /\ Visible(d)
    /\ documents[d].kb_id = kb_id
    /\ document_chunks' = RowsNotOf(document_chunks, d)
    /\ documents' = [documents EXCEPT ![d] = NoRow]
    /\ document_count' =
            IF kb_id \in knowledge_bases
            THEN [document_count EXCEPT ![kb_id] = Max(0, @ - 1)]
            ELSE document_count
    /\ UNCHANGED <<next_doc_id, es_indices, es_docs, tasks, first_ingest>>
    /\ UNCHANGED <<knowledge_bases, config_vars, query_vars>>

\* delete_documents_batch: the documents of doc_ids that belong to kb_id are
\* deleted with their chunk rows and kb.document_count, loaded at the start
\* of the request, is lowered by their number; it returns early when there
\* is none.  The index is not touched.
DeleteDocumentsBatch(kb_id, doc_ids) ==
    LET valid_doc_ids == {d \in doc_ids :
                            Visible(d) /\ documents[d].kb_id = kb_id} IN
    /\ kb_id \in knowledge_bases
    /\ valid_doc_ids # {}
    /\ document_chunks' = RowsNotIn(document_chunks, valid_doc_ids)
    /\ documents' = [d \in DocIds |->
                        IF d \in valid_doc_ids THEN NoRow ELSE documents[d]]
    /\ document_count' = [document_count EXCEPT ![kb_id] =
                            Max(0, @ - Cardinality(valid_doc_ids))]
    /\ UNCHANGED <<next_doc_id, es_indices, es_docs, tasks, first_ingest>>
    /\ UNCHANGED <<knowledge_bases, config_vars, query_vars>>

\* delete_knowledge_base: the chunk rows and the rows of the documents of the
\* knowledge base, then its own row, are deleted; the statement waits for an
\* upload of that knowledge base that has not committed.  Neither the index
\* nor its entries are touched.
DeleteKnowledgeBase(kb_id) ==
    LET docs == {d \in DocIds : RowExists(d) /\ documents[d].kb_id = kb_id} IN
    /\ kb_id \in knowledge_bases
    /\ \A d \in docs : documents[d].committed
    /\ document_chunks' = RowsNotIn(document_chunks, docs)
    /\ documents' = [d \in DocIds |->
                        IF d \in docs THEN NoRow ELSE documents[d]]
    /\ knowledge_bases' = knowledge_bases \ {kb_id}
    /\ document_count' = [document_count EXCEPT ![kb_id] = 0]
    /\ UNCHANGED <<next_doc_id, es_indices, es_docs, tasks, first_ingest>>
    /\ UNCHANGED <<config_vars, query_vars>>

\* uploads, their ingestion runs, and deletions
NextDel ==
    \/ \E kb_id \in KbIds, file \in Files : UploadDocument(kb_id, file)
    \/ \E d \in DocIds : UploadCommit(d)
    \/ \E t \in TaskIds : Step(t)
    \/ \E kb_id \in KbIds, d \in DocIds : DeleteDocument(kb_id, d)
    \/ \E kb_id \in KbIds, doc_ids \in SUBSET DocIds :
            DeleteDocumentsBatch(kb_id, doc_ids)
    \/ \E kb_id \in KbIds : DeleteKnowledgeBase(kb_id)

SpecDel == Init /\ [][NextDel]_vars

\* uploads and their ingestion runs in a deployment of any settings
InitConfig ==
    /\ IngestInit
    /\ settings \in SettingsSet
    /\ query_items = CHOOSE items \in ItemSets : TRUE
    /\ request = NoRequest
    /\ llm_calls = 0

NextConfig ==
    \/ \E kb_id \in KbIds, file \in Files : UploadDocument(kb_id, file)
    \/ \E d \in DocIds : UploadCommit(d)
    \/ \E t \in TaskIds : Step(t)

SpecConfig == InitConfig /\ [][NextConfig]_vars

\* ------------------------------------------------------------------------
\* Search: ElasticsearchRetriever.search and hybrid_search
\* ------------------------------------------------------------------------

\* score_threshold: float = 0.5, in tenths
DefaultScoreThreshold == 5

\* "rank_constant": 60
RankConstant == 60

\* the engine orders hits by descending _score (ties: by entry id)
RECURSIVE SortHits(_)
SortHits(S) ==
    IF S = {} THEN <<>>
    ELSE LET h == CHOOSE x \in S : \A y \in S :
                    \/ x.score > y.score
                    \/ (x.score = y.score /\ x.id <= y.id)
         IN <<h>> \o SortHits(S \ {h})

\* size=n of a search request, [:n] of a list
Take(seq, n) == SubSeq(seq, 1, Min(n, Len(seq)))

IdsOf(hits) == {hits[i].id : i \in DOMAIN hits}

\* the knn clause: the k entries nearest to the query vector among those
\* that satisfy knn.filter (filters: 0 for none, or the document_id the
\* entries must have)
KnnHits(items, k, filters) ==
    Take(SortHits({[id |-> i, score |-> items[i].vs,
                    document_id |-> items[i].document_id] :
                        i \in {j \in ItemIds :
                                filters = 0 \/ items[j].document_id = filters}}),
         k)

\* the match clause on content: the entries the query text matches
MatchHits(items) ==
    SortHits({[id |-> i, score |-> items[i].ts,
               document_id |-> items[i].document_id] :
                    i \in {j \in ItemIds : items[j].ts > 0}})

\* client.search of search: the engine joins the hits of the knn clause and
\* of the query clause (when there is one), adds their scores per entry and
\* returns the size best.  knn.filter is part of the knn clause only.
EngineSearch(items, top_k, query_text, filters) ==
    LET knn == IdsOf(KnnHits(items, top_k, filters))
        match == IF query_text THEN IdsOf(MatchHits(items)) ELSE {}
    IN Take(SortHits({[id |-> i,
                       score |-> (IF i \in knn THEN items[i].vs ELSE 0)
                                    + (IF i \in match THEN items[i].ts ELSE 0),
                       document_id |-> items[i].document_id] :
                            i \in knn \cup match}),
            top_k)

\* a result list that keeps every hit
KeepAllHits(hits, score_threshold) == hits

\* search, lines 297-320: hits whose score is below score_threshold are
\* skipped, the others are kept in the order of the engine
FilterByScore(hits, score_threshold) ==
    SelectSeq(hits, LAMBDA h : h.score >= score_threshold)

\* search: the result list; an exception of client.search is logged and the
\* empty list is returned
Search(items, top_k, score_threshold, query_text, filters, engine_ok) ==
    IF ~engine_ok THEN <<>>
    ELSE FilterByScore(EngineSearch(items, top_k, query_text, filters),
                       score_threshold)

\* the position of entry id in a ranked list, 0 when it is not in it
RankIn(hits, id) ==
    IF id \in IdsOf(hits) THEN CHOOSE i \in DOMAIN hits : hits[i].id = id
    ELSE 0

\* the fused score of reciprocal rank fusion, as a fraction: the sum of
\* 1 / (rank_constant + rank) over the lists the entry is in
FusedScore(vrank, lrank) ==
    IF vrank > 0 /\ lrank > 0
    THEN [num |-> (RankConstant + vrank) + (RankConstant + lrank),
          den |-> (RankConstant + vrank) * (RankConstant + lrank)]
    ELSE IF vrank > 0 THEN [num |-> 1, den |-> RankConstant + vrank]
    ELSE [num |-> 1, den |-> RankConstant + lrank]

\* hits in descending order of their fused score (ties: by entry id)
RECURSIVE SortFused(_)
SortFused(S) ==
    IF S = {} THEN <<>>
    ELSE LET h == CHOOSE x \in S : \A y \in S :
                    \/ x.score.num * y.score.den > y.score.num * x.score.den
                    \/ (x.score.num * y.score.den = y.score.num * x.score.den
                            /\ x.id <= y.id)
         IN <<h>> \o SortFused(S \ {h})

\* the top_k entries by fused score over a vector-ranked and a lexical-ranked
\* list
FusedTopK(items, vec, lex, top_k) ==
    Take(SortFused({[id |-> i,
                     score |-> FusedScore(RankIn(vec, i), RankIn(lex, i)),
                     document_id |-> items[i].document_id] :
                        i \in IdsOf(vec) \cup IdsOf(lex)}),
         top_k)

\* the list of the knn sub-search of hybrid_search ("k": top_k)
VectorRanked(items, top_k) == KnnHits(items, top_k, 0)

\* the list of the match sub-search, cut at window_size = top_k * 2
LexicalRanked(items, top_k) == Take(MatchHits(items), top_k * 2)

\* client.search of hybrid_search when the engine accepts the rrf request
EngineRrf(items, top_k) ==
    FusedTopK(items, VectorRanked(items, top_k), LexicalRanked(items, top_k),
              top_k)

\* hybrid_search: the hits of the rrf request; when that request raises,
\* the result of search(kb_ids, query_vector, query_text, top_k)
HybridSearch(items, top_k, rrf_ok, engine_ok) ==
    IF rrf_ok THEN EngineRrf(items, top_k)
    ELSE Search(items, top_k, DefaultScoreThreshold, TRUE, 0, engine_ok)

\* a call in progress: its arguments, what the index holds for its query,
\* which collaborator failed, and what the caller received
NewRequest(op, top_k) ==
    [op |-> op, pc |-> "done", top_k |-> top_k,
     score_threshold |-> DefaultScoreThreshold, query_text |-> TRUE,
     filters |-> 0, failed |-> "none", rrf_ok |-> TRUE,
     use_rerank |-> FALSE, top_k_rerank |-> top_k, contexts |-> <<>>,
     response |-> [kind |-> "none"]]

ScoreThresholds == {DefaultScoreThreshold, 2 * DefaultScoreThreshold}

\* a call of retriever.search
RetrieverSearch(top_k, score_threshold, query_text, filters, engine_ok) ==
    /\ request.pc = "idle"
    /\ request' = [NewRequest("search", top_k) EXCEPT
            !.score_threshold = score_threshold,
            !.query_text = query_text,
            !.filters = filters,
            !.failed = IF engine_ok THEN "none" ELSE "engine",
            !.response = [kind |-> "results",
                          results |-> Search(query_items, top_k, score_threshold,
                                             query_text, filters, engine_ok)]]
    /\ UNCHANGED <<ingest_vars, kb_vars, config_vars, query_items, llm_calls>>

\* a call of retriever.hybrid_search
RetrieverHybridSearch(top_k, rrf_ok, engine_ok) ==
    /\ request.pc = "idle"
    /\ rrf_ok => engine_ok
    /\ request' = [NewRequest("hybrid_search", top_k) EXCEPT
            !.rrf_ok = rrf_ok,
            !.failed = IF engine_ok THEN "none" ELSE "engine",
            !.response = [kind |-> "results",
                          results |-> HybridSearch(query_items, top_k, rrf_ok,
                                                   engine_ok)]]
    /\ UNCHANGED <<ingest_vars, kb_vars, config_vars, query_items, llm_calls>>

\* POST /search: the query is embedded and searched; any exception is logged
\* and the empty list is returned
ApiSearch(top_k, score_threshold, embed_ok, engine_ok) ==
    /\ request.pc = "idle"
    /\ request' = [NewRequest("api_search", top_k) EXCEPT
            !.score_threshold = score_threshold,
            !.failed = IF ~embed_ok THEN "embedding"
                       ELSE IF ~engine_ok THEN "engine" ELSE "none",
            !.response = [kind |-> "results",
                          results |-> IF ~embed_ok THEN <<>>
                                      ELSE Search(query_items, top_k, score_threshold,
                                                  TRUE, 0, engine_ok)]]
    /\ UNCHANGED <<ingest_vars, kb_vars, config_vars, query_items, llm_calls>>

\* the caller has its response
Return ==
    /\ request.pc = "done"
    /\ request' = NoRequest
    /\ llm_calls' = 0
    /\ UNCHANGED <<ingest_vars, kb_vars, config_vars, query_items>>

\* ------------------------------------------------------------------------
\* Question answering: RAGService.retrieve, answer and answer_stream
\* ------------------------------------------------------------------------

\* what rerank_service.rerank may return for n documents and top_n: the
\* indexes of at most top_n of them, in the order of the provider
RerankOrders(n, top_n) ==
    {s \in UNION {[1..k -> 1..n] : k \in 0..Min(top_n, n)} :
        \A i, j \in DOMAIN s : i # j => s[i] # s[j]}

\* contexts that keep every search result when the reranker is not called
ContextsOfAllResults(search_results, use_rerank, top_k_rerank, order) ==
    IF use_rerank /\ Len(search_results) > 1
    THEN [i \in DOMAIN order |-> search_results[order[i]]]
    ELSE search_results

\* retrieve, lines 95-129: the contexts built from the search results
Contexts(search_results, use_rerank, top_k_rerank, order) ==
    IF use_rerank /\ Len(search_results) > 1
    THEN [i \in DOMAIN order |-> search_results[order[i]]]
    ELSE Take(search_results, top_k_rerank)

\* a test of "if not contexts" that never holds
NeverSkipsGeneration(contexts) == FALSE

\* answer and answer_stream: "if not contexts"
SkipsGeneration(contexts) == contexts = <<>>

\* the fixed response of answer and of answer_stream for no context
NotFound(op) ==
    IF op = "answer"
    THEN [kind |-> "answer", answer |-> "not_found", sources |-> <<>>]
    ELSE [kind |-> "stream", chunks |-> <<"not_found">>]

\* an exception reaches the caller
ErrorResponse == [kind |-> "error"]

\* a call of answer or answer_stream on a RAGService(use_rerank,
\* top_k_retrieve, top_k_rerank, score_threshold)
AnswerCall(op, top_k, top_k_rerank, use_rerank, score_threshold) ==
    /\ request.pc = "idle"
    /\ request' = [NewRequest(op, top_k) EXCEPT
            !.pc = "retrieve",
            !.score_threshold = score_threshold,
            !.use_rerank = use_rerank,
            !.top_k_rerank = top_k_rerank]
    /\ UNCHANGED <<ingest_vars, kb_vars, config_vars, query_items, llm_calls>>

\* retrieve, line 77: the query is embedded; an exception of the embedding
\* provider leaves retrieve and the answer call
RetrieveEmbed(embed_ok) ==
    /\ request.pc = "retrieve"
    /\ request' =
        IF embed_ok THEN [request EXCEPT !.pc = "search"]
        ELSE [request EXCEPT !.pc = "done", !.failed = "embedding",
                             !.response = ErrorResponse]
    /\ UNCHANGED <<ingest_vars, kb_vars, config_vars, query_items, llm_calls>>

\* retrieve, lines 80-93: the search; without results retrieve returns the
\* empty list, with use_rerank and more than one result it goes on to rerank
RetrieveSearch(engine_ok) ==
    LET search_results ==
            Search(query_items, request.top_k, request.score_threshold,
                   TRUE, 0, engine_ok)
    IN
    /\ request.pc = "search"
    /\ request' = [request EXCEPT
            !.failed = IF engine_ok THEN "none" ELSE "engine",
            !.pc = IF request.use_rerank /\ Len(search_results) > 1
                   THEN "rerank" ELSE "retrieved",
            !.contexts = IF request.use_rerank /\ Len(search_results) > 1
                         THEN search_results
                         ELSE Contexts(search_results, request.use_rerank,
                                       request.top_k_rerank, <<>>)]
    /\ UNCHANGED <<ingest_vars, kb_vars, config_vars, query_items, llm_calls>>

\* retrieve, lines 96-117: the contexts in the order the reranker returned;
\* an exception of the reranker leaves retrieve and the answer call
RetrieveRerank(rerank_ok, order) ==
    /\ request.pc = "rerank"
    /\ order \in RerankOrders(Len(request.contexts), request.top_k_rerank)
    /\ ~rerank_ok => order = <<>>
    /\ request' =
        IF rerank_ok
        THEN [request EXCEPT !.pc = "retrieved",
                !.contexts = Contexts(request.contexts, request.use_rerank,
                                      request.top_k_rerank, order)]
        ELSE [request EXCEPT !.pc = "done", !.failed = "rerank",
                             !.contexts = <<>>, !.response = ErrorResponse]
    /\ UNCHANGED <<ingest_vars, kb_vars, config_vars, query_items, llm_calls>>

\* answer, lines 141-179, and answer_stream, lines 191-210: the fixed
\* response when there is no context, else one call of the generation
\* collaborator, whose exception reaches the caller
AnswerGenerate(llm_ok) ==
    /\ request.pc = "retrieved"
    /\ IF SkipsGeneration(request.contexts)
       THEN /\ llm_ok
            /\ request' = [request EXCEPT !.pc = "done",
                                          !.response = NotFound(request.op)]
            /\ UNCHANGED llm_calls
       ELSE /\ llm_calls' = llm_calls + 1
            /\ request' = [request EXCEPT
                    !.pc = "done",
                    !.failed = IF llm_ok THEN @ ELSE "llm",
                    !.response =
                        IF ~llm_ok THEN ErrorResponse
                        ELSE IF request.op = "answer"
                        THEN [kind |-> "answer", answer |-> "generated",
                              sources |-> request.contexts]
                        ELSE [kind |-> "stream", chunks |-> <<"generated">>]]
    /\ UNCHANGED <<ingest_vars, kb_vars, config_vars, query_items>>

AllOrders == RerankOrders(MaxTopK, MaxTopK)

NextQuery ==
    \/ \E top_k \in 1..MaxTopK,
          score_threshold \in ScoreThresholds, query_text \in BOOLEAN,
          filters \in {0} \cup DocIds, engine_ok \in BOOLEAN :
            RetrieverSearch(top_k, score_threshold, query_text,
                            filters, engine_ok)
    \/ \E top_k \in 1..MaxTopK,
          rrf_ok \in BOOLEAN, engine_ok \in BOOLEAN :
            RetrieverHybridSearch(top_k, rrf_ok, engine_ok)
    \/ \E top_k \in 1..MaxTopK,
          score_threshold \in ScoreThresholds,
          embed_ok \in BOOLEAN, engine_ok \in BOOLEAN :
            ApiSearch(top_k, score_threshold, embed_ok, engine_ok)
    \/ \E op \in {"answer", "answer_stream"},
          top_k \in 1..MaxTopK, top_k_rerank \in 1..MaxTopK,
          use_rerank \in BOOLEAN, score_threshold \in ScoreThresholds :
            AnswerCall(op, top_k, top_k_rerank, use_rerank,
                       score_threshold)
    \/ \E embed_ok \in BOOLEAN : RetrieveEmbed(embed_ok)
    \/ \E engine_ok \in BOOLEAN : RetrieveSearch(engine_ok)
    \/ \E rerank_ok \in BOOLEAN, order \in AllOrders :
            RetrieveRerank(rerank_ok, order)
    \/ \E llm_ok \in BOOLEAN : AnswerGenerate(llm_ok)
    \/ Return

\* a query against an index of any content
InitQuery ==
    /\ IngestInit
    /\ settings = DefaultSettings
    /\ query_items \in ItemSets
    /\ request = NoRequest
    /\ llm_calls = 0

SpecQuery == InitQuery /\ [][NextQuery]_vars

\* ------------------------------------------------------------------------
\* EmbeddingService.embed_batch
\* ------------------------------------------------------------------------

MaxTexts == 3
MaxBatchSize == 3

TextIds == 1..MaxTexts

\* the lists of texts a caller passes: texts that differ from each other
TextSeqs ==
    {texts \in UNION {[1..n -> TextIds] : n \in 0..MaxTexts} :
        \A i, j \in DOMAIN texts : texts[i] = texts[j] => i = j}

\* the EmbeddingResult whose vector the provider computes from text
Vector(text) == [vector_of |-> text]

\* batch = texts[i:i + batch_size]
Batch(texts, i, batch_size) ==
    SubSeq(texts, i + 1, Min(i + batch_size, Len(texts)))

\* BaseEmbedder.embed_batch of the three embedders: one EmbeddingResult for
\* each item of data.get("data", []) (data.get("embeddings", [])) of the
\* reply, which holds kept items
EmbedderResults(batch, kept) ==
    Take([j \in 1..Len(batch) |-> Vector(batch[j])], kept)

\* EmbeddingService.embed_batch, lines 265-268: the call; without texts the
\* loop has no iteration
EmbedBatchCall(texts, batch_size) ==
    /\ request.pc = "idle"
    /\ request' = [op |-> "embed_batch",
                   pc |-> IF Len(texts) = 0 THEN "done" ELSE "batch",
                   texts |-> texts, batch_size |-> batch_size,
                   i |-> 0, results |-> <<>>, failed |-> FALSE]
    /\ UNCHANGED <<ingest_vars, kb_vars, config_vars, query_items, llm_calls>>

\* EmbeddingService.embed_batch, lines 268-274: one iteration of the loop.
\* The provider raises, which leaves embed_batch, or replies with kept items.
EmbedBatchIteration(raised, kept) ==
    /\ request.op = "embed_batch"
    /\ request.pc = "batch"
    /\ LET batch == Batch(request.texts, request.i, request.batch_size)
           i == request.i + request.batch_size
       IN  /\ kept <= Len(batch)
           /\ request' =
                IF raised
                THEN [request EXCEPT !.pc = "done", !.failed = TRUE,
                                     !.results = <<>>]
                ELSE [request EXCEPT
                        !.results = @ \o EmbedderResults(batch, kept),
                        !.i = i,
                        !.pc = IF i >= Len(request.texts) THEN "done"
                               ELSE "batch"]
    /\ UNCHANGED <<ingest_vars, kb_vars, config_vars, query_items, llm_calls>>

NextEmbed ==
    \/ \E texts \in TextSeqs, batch_size \in 1..MaxBatchSize :
            EmbedBatchCall(texts, batch_size)
    \/ \E raised \in BOOLEAN, kept \in 0..MaxBatchSize :
            EmbedBatchIteration(raised, kept)
    \/ Return

SpecEmbed == Init /\ [][NextEmbed]_vars

\* ------------------------------------------------------------------------
\* Text splitting: RecursiveTextSplitter
\* ------------------------------------------------------------------------

MaxTextLen == 4
MaxChunkSize == 3

\* A text is the sequence of its characters.  The characters of the model:
\* two letters, a sentence terminator and the line feed.
Chars == {"a", "b", ".", "\n"}
Whitespace == {"\n"}
Texts == UNION {[1..n -> Chars] : n \in 0..MaxTextLen}

\* self.separators: the default list, without the separators made of
\* characters no text of the model holds (splitting by a separator the text
\* does not hold yields the text as its only part, which is then split by
\* the remaining separators), and two lists a caller passes
DefaultSeparators == << <<"\n", "\n">>, <<"\n">>, <<".">>, <<>> >>
SeparatorLists ==
    {DefaultSeparators, << <<"\n">> >>, << <<".">>, <<"\n">> >>}

\* text.find(sub, start): the lowest index >= start at which sub occurs in
\* text (from 0), or -1
Find(text, sub, start) ==
    LET found == {i \in start..(Len(text) - Len(sub)) :
                      SubSeq(text, i + 1, i + Len(sub)) = sub}
    IN  IF found = {} THEN -1
        ELSE CHOOSE i \in found : \A j \in found : i <= j

\* text.split(separator), separator not empty
RECURSIVE StrSplit(_, _)
StrSplit(text, separator) ==
    LET i == Find(text, separator, 0)
    IN  IF i = -1 THEN <<text>>
        ELSE <<SubSeq(text, 1, i)>>
                \o StrSplit(SubSeq(text, i + Len(separator) + 1, Len(text)),
                            separator)

\* parts = text.split(separator) if separator else list(text)
Parts(text, separator) ==
    IF separator # <<>> THEN StrSplit(text, separator)
    ELSE [i \in 1..Len(text) |-> <<text[i]>>]

\* what a splitting function hands back: a list of chunks, or an exception
Returned(chunks) == [raised |-> FALSE, chunks |-> chunks]
RaisedValueError == [raised |-> TRUE, chunks |-> <<>>]

\* _split_by_length: range(0, len(text), chunk_size - chunk_overlap) raises
\* ValueError for a step of zero and is empty for a negative step
SplitByLength(text, chunk_size, chunk_overlap) ==
    LET step == chunk_size - chunk_overlap
    IN  IF step = 0 THEN RaisedValueError
        ELSE IF step < 0 THEN Returned(<<>>)
        ELSE Returned(
                [k \in 1..((Len(text) + step - 1) \div step) |->
                    SubSeq(text, (k - 1) * step + 1,
                           Min((k - 1) * step + chunk_size, Len(text)))])

\* _recursive_split, and the loop over its parts from part k on
RECURSIVE RecursiveSplit(_, _, _, _)
RECURSIVE SplitParts(_, _, _, _, _, _, _, _)
SplitParts(parts, k, separator, remaining_separators, result, current_chunk, chunk_size, chunk_overlap) ==
    IF k > Len(parts)
    THEN Returned(IF current_chunk # <<>> THEN Append(result, current_chunk)
                  ELSE result)
    ELSE
      LET part == parts[k]
          test_chunk == IF current_chunk # <<>>
                        THEN current_chunk \o separator \o part
                        ELSE part
          saved == IF current_chunk # <<>> THEN Append(result, current_chunk)
                   ELSE result
      IN  IF Len(test_chunk) <= chunk_size
          THEN SplitParts(parts, k + 1, separator, remaining_separators,
                          result, test_chunk, chunk_size, chunk_overlap)
          ELSE IF Len(part) > chunk_size
          THEN LET sub_chunks == RecursiveSplit(part, remaining_separators,
                                                chunk_size, chunk_overlap)
               IN  IF sub_chunks.raised THEN RaisedValueError
                   ELSE SplitParts(parts, k + 1, separator,
                                   remaining_separators,
                                   saved \o sub_chunks.chunks, <<>>,
                                   chunk_size, chunk_overlap)
          ELSE SplitParts(parts, k + 1, separator, remaining_separators,
                          saved, part, chunk_size, chunk_overlap)

RecursiveSplit(text, separators, chunk_size, chunk_overlap) ==
    IF text = <<>> THEN Returned(<<>>)
    ELSE IF Len(text) <= chunk_size THEN Returned(<<text>>)
    ELSE IF separators = <<>>
    THEN SplitByLength(text, chunk_size, chunk_overlap)
    ELSE SplitParts(Parts(text, Head(separators)), 1, Head(separators),
                    Tail(separators), <<>>, <<>>, chunk_size, chunk_overlap)

\* min_chunk_size = self.chunk_size // 4, which _merge_small_chunks computes
\* and does not read
min_chunk_size(chunk_size) == chunk_size \div 4

\* _merge_small_chunks, the loop from chunk k on
RECURSIVE MergeFrom(_, _, _, _, _)
MergeFrom(chunks, k, result, current_chunk, chunk_size) ==
    IF k > Len(chunks)
    THEN IF current_chunk # <<>> THEN Append(result, current_chunk)
         ELSE result
    ELSE IF Len(current_chunk) + Len(chunks[k]) <= chunk_size
    THEN MergeFrom(chunks, k + 1, result,
                   IF current_chunk # <<>>
                   THEN current_chunk \o <<"\n">> \o chunks[k]
                   ELSE chunks[k],
                   chunk_size)
    ELSE MergeFrom(chunks, k + 1,
                   IF current_chunk # <<>> THEN Append(result, current_chunk)
                   ELSE result,
                   chunks[k], chunk_size)

MergeSmallChunks(chunks, chunk_size) ==
    MergeFrom(chunks, 1, <<>>, <<>>, chunk_size)

\* split, lines 80-95: the TextChunk objects, from chunk k on; index is the
\* position in the list, from 0
RECURSIVE TextChunks(_, _, _, _)
TextChunks(text, merged_chunks, k, current_pos) ==
    IF k > Len(merged_chunks) THEN <<>>
    ELSE
      LET found == Find(text, merged_chunks[k], current_pos)
          start_pos == IF found = -1 THEN current_pos ELSE found
      IN  <<[content |-> merged_chunks[k], index |-> k - 1,
             start_pos |-> start_pos,
             end_pos |-> start_pos + Len(merged_chunks[k])]>>
            \o TextChunks(text, merged_chunks, k + 1, start_pos + 1)

\* TextSplitter.__init__ and RecursiveTextSplitter.__init__: the arguments
\* are stored as they come
NewSplitter(chunk_size, chunk_overlap, separators) ==
    /\ request.pc = "idle"
    /\ request' = [op |-> "splitter", pc |-> "created",
                   chunk_size |-> chunk_size,
                   chunk_overlap |-> chunk_overlap,
                   separators |-> separators]
    /\ UNCHANGED <<ingest_vars, kb_vars, config_vars, query_items, llm_calls>>

\* RecursiveTextSplitter.split
SplitterSplit(text) ==
    /\ request.op = "splitter"
    /\ request.pc = "created"
    /\ LET chunks == RecursiveSplit(text, request.separators,
                                    request.chunk_size, request.chunk_overlap)
           merged_chunks == MergeSmallChunks(chunks.chunks,
                                             request.chunk_size)
       IN  request' =
             [op |-> "splitter", pc |-> "done",
              chunk_size |-> request.chunk_size,
              chunk_overlap |-> request.chunk_overlap,
              separators |-> request.separators,
              text |-> text,
              raised |-> chunks.raised,
              chunks |-> chunks.chunks,
              merged_chunks |-> IF chunks.raised THEN <<>> ELSE merged_chunks,
              result |-> IF chunks.raised THEN <<>>
                         ELSE TextChunks(text, merged_chunks, 1, 0)]
    /\ UNCHANGED <<ingest_vars, kb_vars, config_vars, query_items, llm_calls>>

NextSplit ==
    \/ \E chunk_size \in 1..MaxChunkSize,
          chunk_overlap \in 0..(MaxChunkSize + 1),
          separators \in SeparatorLists :
            NewSplitter(chunk_size, chunk_overlap, separators)
    \/ \E text \in Texts : SplitterSplit(text)
    \/ Return

SpecSplit == Init /\ [][NextSplit]_vars

\* ------------------------------------------------------------------------
\* Reranking: RerankService.rerank, AliyunReranker and LocalReranker
\* ------------------------------------------------------------------------

\* the settings get_reranker reads
RerankSettings ==
    [rerank_provider : {"aliyun", "local", "custom"},
     rerank_deploy_mode : {"api", "local"},
     rerank_local_url : {"", "url"}]

\* get_reranker: the class of the reranker
Reranker(s) ==
    IF s.rerank_deploy_mode = "local" THEN "LocalReranker"
    ELSE IF s.rerank_provider = "aliyun" THEN "AliyunReranker"
    ELSE "LocalReranker"

\* the RerankResult list built from the reply of a provider that answers the
\* request for top_n results: index from 0, scores in tenths, descending
RerankResults(order) ==
    [k \in DOMAIN order |->
        [index |-> order[k] - 1, score |-> 10 - k]]

\* RerankService.rerank up to the request to the provider, for a list of
\* n_documents documents: LocalReranker
\* raises ValueError without a local url, then both rerankers return []
\* for no documents
RerankCall(s, n_documents, top_k) ==
    /\ request.pc = "idle"
    /\ request' =
        [op |-> "rerank", documents |-> n_documents, top_k |-> top_k,
         reranker |-> Reranker(s),
         results |-> <<>>,
         failed |-> Reranker(s) = "LocalReranker" /\ s.rerank_local_url = "",
         pc |-> IF Reranker(s) = "LocalReranker" /\ s.rerank_local_url = ""
                THEN "done"
                ELSE IF n_documents = 0 THEN "done"
                ELSE "post"]
    /\ UNCHANGED <<ingest_vars, kb_vars, config_vars, query_items, llm_calls>>

\* the reply of the provider: raise_for_status raises, or the results are
\* built from it
RerankReply(rerank_ok, order) ==
    /\ request.op = "rerank"
    /\ request.pc = "post"
    /\ order \in RerankOrders(request.documents, request.top_k)
    /\ ~rerank_ok => order = <<>>
    /\ request' =
        IF rerank_ok
        THEN [request EXCEPT !.pc = "done", !.results = RerankResults(order)]
        ELSE [request EXCEPT !.pc = "done", !.failed = TRUE]
    /\ UNCHANGED <<ingest_vars, kb_vars, config_vars, query_items, llm_calls>>

NextRerank ==
    \/ \E s \in RerankSettings, n_documents \in 0..MaxTopK,
          top_k \in 1..MaxTopK :
            RerankCall(s, n_documents, top_k)
    \/ \E rerank_ok \in BOOLEAN, order \in AllOrders :
            RerankReply(rerank_ok, order)
    \/ Return

SpecRerank == Init /\ [][NextRerank]_vars

\* ------------------------------------------------------------------------
\* Tokens: JWTService (app/auth/jwt.py).  Times are minutes; "now" is the
\* time since the epoch in UTC.
\* ------------------------------------------------------------------------

jwt_access_token_expire_minutes == 30
jwt_refresh_token_expire_days == 7

\* the longest time a token of the model is followed
MaxNow == 11000

\* local time minus UTC on the host, in minutes
UtcOffsets == {-300, 0, 480}

Users == {[sub |-> "1", username |-> "alice"],
          [sub |-> "2", username |-> "bob"]}

TokenTypes == {"access", "refresh"}

\* expires_delta of create_access_token and create_refresh_token: 0 stands
\* for None
ExpiresDeltas == {0, -1}

\* steps of the clock
Minutes == {20, 400, 10080}

\* datetime.timestamp() of the naive datetime that datetime.utcnow() (plus
\* a timedelta) returns: a naive datetime is read as local time
Timestamp(naive_utc, utc_offset) == naive_utc - utc_offset

\* the lifetime create_access_token and create_refresh_token give a token
Lifetime(token_type, expires_delta) ==
    IF expires_delta # 0 THEN expires_delta
    ELSE IF token_type = "access" THEN jwt_access_token_expire_minutes
    ELSE jwt_refresh_token_expire_days * 24 * 60

\* create_access_token and create_refresh_token: the claims of the token
\* and whether its signature verifies
CreateToken(user, token_type, expires_delta, now, utc_offset) ==
    [sub |-> user.sub, username |-> user.username,
     exp |-> Timestamp(now + Lifetime(token_type, expires_delta),
                       utc_offset),
     token_type |-> token_type, signed |-> TRUE]

\* verify_token: jwt.decode raises for a signature that does not verify and
\* for exp < now; the payload, or None (ok |-> FALSE)
VerifyToken(token, now) ==
    IF token.signed /\ token.exp >= now
    THEN [ok |-> TRUE, sub |-> token.sub, username |-> token.username,
          token_type |-> token.token_type]
    ELSE [ok |-> FALSE, sub |-> "", username |-> "", token_type |-> ""]

\* what refresh_access_token returns: None
ReturnedNone == [issued |-> FALSE]

\* a token is created on a host of some time zone
JwtCreateToken(utc_offset, user, token_type, expires_delta) ==
    /\ request.pc = "idle"
    /\ request' = [op |-> "jwt", pc |-> "issued", utc_offset |-> utc_offset,
                   now |-> 0, issued_at |-> 0,
                   lifetime |-> Lifetime(token_type, expires_delta),
                   token |-> CreateToken(user, token_type, expires_delta, 0,
                                         utc_offset),
                   result |-> ReturnedNone]
    /\ UNCHANGED <<ingest_vars, kb_vars, config_vars, query_items, llm_calls>>

\* the token is altered: its signature does not verify any more
JwtTamper ==
    /\ request.op = "jwt"
    /\ request.pc = "issued"
    /\ request.token.signed
    /\ request' = [request EXCEPT !.token.signed = FALSE]
    /\ UNCHANGED <<ingest_vars, kb_vars, config_vars, query_items, llm_calls>>

JwtTimePasses(minutes) ==
    /\ request.op = "jwt"
    /\ request.pc = "issued"
    /\ request.now + minutes <= MaxNow
    /\ request' = [request EXCEPT !.now = @ + minutes]
    /\ UNCHANGED <<ingest_vars, kb_vars, config_vars, query_items, llm_calls>>

\* refresh_access_token(refresh_token)
RefreshAccessToken ==
    /\ request.op = "jwt"
    /\ request.pc = "issued"
    /\ LET payload == VerifyToken(request.token, request.now)
       IN  request' = [request EXCEPT
             !.pc = "done",
             !.result =
                IF ~payload.ok THEN ReturnedNone
                ELSE IF payload.token_type # "refresh" THEN ReturnedNone
                ELSE [issued |-> TRUE,
                      access_token |->
                        CreateToken([sub |-> payload.sub,
                                     username |-> payload.username],
                                    "access", 0, request.now,
                                    request.utc_offset)]]
    /\ UNCHANGED <<ingest_vars, kb_vars, config_vars, query_items, llm_calls>>

NextJwt ==
    \/ \E utc_offset \in UtcOffsets, user \in Users,
          token_type \in TokenTypes, expires_delta \in ExpiresDeltas :
            JwtCreateToken(utc_offset, user, token_type, expires_delta)
    \/ JwtTamper
    \/ \E minutes \in Minutes : JwtTimePasses(minutes)
    \/ RefreshAccessToken
    \/ Return

SpecJwt == Init /\ [][NextJwt]_vars

\* ------------------------------------------------------------------------
\* Properties
\* ------------------------------------------------------------------------

\* a run of process_document is in progress in task t
InRun(t) == tasks[t].pc \notin {"idle", "poll", "done"}

\* task t takes the last step of its run
Ends(t) == tasks[t].pc \notin {"idle", "done"} /\ tasks'[t].pc = "done"

\* C1: whenever a document's status is completed, its chunk_count equals the
\* number of its chunk rows and the number of its entries in the index of its
\* knowledge base.
CompletedCountsAgree ==
    \A d \in DocIds :
        (RowExists(d) /\ documents[d].status = "completed") =>
            /\ documents[d].chunk_count = BagCardinality(ChunkRowsOf(d))
            /\ documents[d].chunk_count =
                    Cardinality({e \in EntriesOf(d) :
                                    e.kb_id = documents[d].kb_id})

\* C2: when a run ends on a failure path and leaves its document failed, the
\* document has chunk_count 0 and no chunk row, and the index holds no entry
\* written by that run.
FailedLeavesNothing ==
    [][\A t \in TaskIds :
        (/\ Ends(t)
         /\ tasks[t].pc \in {"fail_return", "except"}
         /\ documents'[tasks[t].doc_id].status = "failed") =>
            LET d == tasks[t].doc_id IN
            /\ documents'[d].chunk_count = 0
            /\ ChunkRowsOf(d)' = EmptyBag
            /\ \A e \in es_docs' : e.created_at # t]_vars

\* C3: a document is in processing only while a task of that document is
\* pending or running: once its runs have ended it is completed or failed.
NoStuckProcessing ==
    \A d \in DocIds :
        (RowExists(d) /\ documents[d].status = "processing") => ~NoTaskOf(d)

\* C4: no two runs of process_document are in progress for the same document.
OneRunPerDocument ==
    \A t1, t2 \in TaskIds :
        (t1 # t2 /\ InRun(t1) /\ InRun(t2)) =>
            tasks[t1].doc_id # tasks[t2].doc_id

\* C5: the chunk_index values of a document's chunk rows are pairwise
\* distinct and are exactly 0..n-1.
ChunkIndexesDense ==
    \A d \in DocIds :
        LET rows == ChunkRowsOf(d) IN
        /\ \A r \in DOMAIN rows : rows[r] = 1
        /\ {r.chunk_index : r \in DOMAIN rows} = 0..(BagCardinality(rows) - 1)

\* C6: with reprocess requests issued one after another, when a run writes
\* index entries for its document, the index holds no entry of that document
\* written by an earlier run, neither just before the write nor after it.
OldEntriesGoneBeforeNew ==
    [][\A t \in TaskIds :
        (tasks[t].pc = "bulk_index" /\ es_docs' # es_docs) =>
            LET d == tasks[t].doc_id IN
            /\ \A e \in EntriesOf(d) : e.created_at = t
            /\ \A e \in EntriesOf(d)' : e.created_at = t]_vars

\* C7: with reprocess requests issued one after another, a document that is
\* completed has the chunk_count, the chunk rows and the index entries that
\* its first completed ingestion left.
ReprocessIdempotent ==
    \A d \in DocIds :
        (RowExists(d) /\ documents[d].status = "completed"
            /\ first_ingest[d].set) =>
            DocSnapshot(documents, document_chunks, es_docs, d) = first_ingest[d]

\* C8: every change of a document's status is pending to processing,
\* processing to completed or failed, or completed or failed back to
\* processing.
StatusTransitions ==
    [][\A d \in DocIds :
        (RowExists(d) /\ documents'[d].status # documents[d].status) =>
            <<documents[d].status, documents'[d].status>> \in
                {<<"pending", "processing">>, <<"processing", "completed">>,
                 <<"processing", "failed">>, <<"completed", "processing">>,
                 <<"failed", "processing">>}]_vars

\* C9: a run whose parser returned an empty text, or whose splitter returned
\* no chunk, never reaches the embedding call, the index write or the chunk
\* insertion, and it ends with status failed and a non-empty error_message.
EmptyInputFails ==
    [][\A t \in TaskIds :
        (tasks[t].parsed \in {"empty", "separators"}) =>
            /\ tasks'[t].pc \in {"fail_return", "except", "done"}
            /\ (Ends(t) /\ RowExists(tasks[t].doc_id)) =>
                    /\ documents'[tasks[t].doc_id].status = "failed"
                    /\ documents'[tasks[t].doc_id].error_message # ""]_vars

\* C10: a step of a run or of a reprocess request for one document leaves the
\* row, the chunk rows and the index entries of every other document as they
\* were.
OtherDocumentsUntouched ==
    [][\A t \in TaskIds :
        (tasks'[t] # tasks[t]) =>
            LET a == IF tasks[t].pc = "idle" THEN tasks'[t].doc_id
                     ELSE tasks[t].doc_id
            IN \A b \in DocIds \ {a} :
                    /\ documents'[b] = documents[b]
                    /\ ChunkRowsOf(b)' = ChunkRowsOf(b)
                    /\ EntriesOf(b)' = EntriesOf(b)]_vars

\* two documents of one knowledge base both have chunk rows and index
\* entries while a run for one of them is in progress
TwoDocumentsIndexed ==
    \E a, b \in DocIds :
        /\ a # b /\ RowExists(a) /\ RowExists(b)
        /\ documents[a].kb_id = documents[b].kb_id
        /\ EntriesOf(a) # {} /\ EntriesOf(b) # {}
        /\ ChunkRowsOf(a) # EmptyBag /\ ChunkRowsOf(b) # EmptyBag
        /\ \E t \in TaskIds : InRun(t) /\ tasks[t].doc_id = a

\* C11: a step that deletes a document leaves no chunk row and no index
\* entry of that document, and a step that deletes a knowledge base leaves no
\* document row and no index entry of that knowledge base.
DeletionRemovesEverything ==
    [][/\ \A d \in DocIds :
            (RowExists(d) /\ ~RowExists(d)') =>
                ChunkRowsOf(d)' = EmptyBag /\ EntriesOf(d)' = {}
       /\ \A k \in KbIds :
            (k \in knowledge_bases /\ k \notin knowledge_bases') =>
                /\ \A d \in DocIds : RowExists(d)' => documents'[d].kb_id # k
                /\ \A e \in es_docs' : e.kb_id # k]_vars

\* C12: when an answer or answer_stream call has retrieved no context, the
\* generation collaborator has not been called for it and the caller has the
\* fixed not-found response (with no sources for answer).
AnswerSkipsGeneration ==
    (/\ request.op \in {"answer", "answer_stream"}
     /\ request.pc = "done"
     /\ request.failed \in {"none", "engine"}
     /\ request.contexts = <<>>) =>
        /\ llm_calls = 0
        /\ request.response = NotFound(request.op)

\* an answer call whose search matched nothing has ended
AnsweredNotFound ==
    /\ request.op = "answer"
    /\ request.pc = "done"
    /\ request.failed = "none"
    /\ request.contexts = <<>>
    /\ request.response.kind = "answer"

\* C13: a call during which the index engine or the embedding provider
\* failed ends with an error for its caller, never with a list of results
\* or the not-found answer.
FailuresAreErrors ==
    (request.pc = "done" /\ request.failed \in {"engine", "embedding"}) =>
        request.response.kind = "error"

\* C14: the list search returns, and the list hybrid_search returns from its
\* fallback to search, is in non-increasing order of score and holds no
\* result whose score is below the score threshold.
SearchResultsOrdered ==
    (/\ request.pc = "done"
     /\ \/ request.op = "search"
        \/ request.op = "hybrid_search" /\ ~request.rrf_ok) =>
        LET results == request.response.results IN
        /\ \A i, j \in DOMAIN results :
                i < j => results[i].score >= results[j].score
        /\ \A i \in DOMAIN results :
                results[i].score >= request.score_threshold

\* search returned two results of different scores and skipped the third hit
\* of the engine
SearchDroppedLowScore ==
    /\ request.op = "search"
    /\ request.pc = "done"
    /\ request.failed = "none"
    /\ Len(request.response.results) = 2
    /\ request.response.results[1].score > request.response.results[2].score
    /\ Len(EngineSearch(query_items, request.top_k, request.query_text,
                        request.filters)) = 3

\* C15: hybrid_search returns the top_k entries in the order of their fused
\* score over the vector-ranked and the lexical-ranked list, also when the
\* engine rejects the rrf request.
HybridIsFused ==
    (/\ request.op = "hybrid_search"
     /\ request.pc = "done"
     /\ request.failed = "none") =>
        LET results == request.response.results
            fused == FusedTopK(query_items,
                               VectorRanked(query_items, request.top_k),
                               LexicalRanked(query_items, request.top_k),
                               request.top_k)
        IN [i \in DOMAIN results |-> results[i].id]
                = [i \in DOMAIN fused |-> fused[i].id]

\* C16: every result of a search called with a filter satisfies the filter.
FiltersHold ==
    (/\ request.op = "search"
     /\ request.pc = "done"
     /\ request.filters # 0) =>
        \A i \in DOMAIN request.response.results :
            request.response.results[i].document_id = request.filters

\* C17: a create_index call for a knowledge base whose index exists, during
\* which the engine answers every request, succeeds (the run goes on to
\* bulk_index) and leaves the indexes as they are.
CreateIndexIdempotent ==
    [][\A t \in TaskIds :
          ( /\ IndexExists(tasks[t].kb_id)
            /\ CreateIndexExists(t, FALSE) \/ CreateIndexCreate(t, FALSE) )
          => /\ tasks'[t].pc = "bulk_index"
             /\ es_indices' = es_indices]_vars

\* C18: an embed_batch call that returns holds one result for each text,
\* the i-th result being the vector of the i-th text.
EmbedBatchInOrder ==
    (request.op = "embed_batch" /\ request.pc = "done" /\ ~request.failed)
    => /\ Len(request.results) = Len(request.texts)
       /\ \A i \in DOMAIN request.results :
             request.results[i] = Vector(request.texts[i])

\* C19: a failure of the embedding provider that clears within the bound of
\* retries (fewer failed calls than max_retries before it answers) does not
\* fail the run: the run does not reach the except clause at its embed step.
TransientEmbeddingFailureRetried ==
    [][\A t \in TaskIds, m \in 0..MaxChunks,
          failures \in 1..(max_retries - 1) :
            EmbedBatch(t, failures, m) => tasks'[t].pc # "except"]_vars

\* C20: when the dimension of the active embedder differs from the vector
\* width the index is configured with, the creation of the index fails: the
\* run reaches the except clause and no index is created.
DimensionMismatchFailsFast ==
    [][\A t \in TaskIds, raised \in BOOLEAN :
          ( /\ Dimension(settings) # VectorDimension(settings)
            /\ CreateIndexCreate(t, raised) )
          => /\ tasks'[t].pc = "except"
             /\ es_indices' = es_indices]_vars

\* a split call has returned its chunks
SplitDone ==
    request.op = "splitter" /\ request.pc = "done" /\ ~request.raised

\* the configuration the text asks for: 0 <= chunk_overlap < chunk_size
ValidSplitter == request.chunk_overlap < request.chunk_size

\* C21: a splitter with chunk_overlap >= chunk_size is rejected when it is
\* configured: no such splitter is ever created, and split never runs
\* under it.
OverlapRejected ==
    request.op = "splitter" => request.chunk_overlap < request.chunk_size

\* C22: under 0 <= chunk_overlap < chunk_size, every chunk split returns is
\* at most chunk_size characters long.
ChunksWithinSize ==
    (SplitDone /\ ValidSplitter)
    => \A i \in DOMAIN request.result :
          Len(request.result[i].content) <= request.chunk_size

\* C23: every non-whitespace character of the text lies in the range
\* [start_pos, end_pos) of a returned chunk whose content holds it.
NoCharacterLost ==
    (SplitDone /\ ValidSplitter)
    => \A p \in DOMAIN request.text :
          request.text[p] \notin Whitespace
          => \E i \in DOMAIN request.result :
                /\ request.result[i].start_pos <= p - 1
                /\ p - 1 < request.result[i].end_pos
                /\ \E j \in DOMAIN request.result[i].content :
                      request.result[i].content[j] = request.text[p]

\* C27: the merge pass leaves every unit of length at least chunk_size / 4
\* as it was emitted, and every unit it returns is at most chunk_size long.
MergeOnlySmallUnits ==
    (SplitDone /\ ValidSplitter)
    => /\ \A i \in DOMAIN request.chunks :
            4 * Len(request.chunks[i]) >= request.chunk_size
            => \E j \in DOMAIN request.merged_chunks :
                  request.merged_chunks[j] = request.chunks[i]
       /\ \A j \in DOMAIN request.merged_chunks :
            Len(request.merged_chunks[j]) <= request.chunk_size

\* C24: a rerank call for no documents returns the empty list without
\* raising, whichever reranker is configured; a call that returns holds at
\* most min(top_k, len(documents)) results, in non-increasing score order,
\* each index a position of documents.
RerankContract ==
    (request.op = "rerank" /\ request.pc = "done")
    => /\ request.documents = 0
            => ~request.failed /\ request.results = <<>>
       /\ ~request.failed
            => /\ Len(request.results)
                    <= Min(request.top_k, request.documents)
               /\ \A i, j \in DOMAIN request.results :
                    i < j => request.results[i].score
                                >= request.results[j].score
               /\ \A i \in DOMAIN request.results :
                    request.results[i].index \in 0..(request.documents - 1)

RefreshIssuesAccessToken ==
    (request.op = "jwt" /\ request.pc = "done" /\ request.result.issued)
    => /\ request.token.signed
       /\ request.token.token_type = "refresh"
       /\ request.now <= request.issued_at + request.lifetime
       /\ VerifyToken(request.result.access_token, request.now) =
            [ok |-> TRUE, sub |-> request.token.sub,
             username |-> request.token.username, token_type |-> "access"]

\* C28: every document whose upload has committed eventually leaves status
\* pending.
CommittedLeavesPending ==
    \A d \in DocIds :
        Visible(d) ~> (documents[d].status # "pending")

\* C29: once a document's row is deleted, no step adds a chunk row or an
\* index entry of that document: an ingestion run in progress when the
\* document is deleted writes nothing for it afterwards.
NoWritesAfterDelete ==
    [][\A d \in DocIds :
          (d < next_doc_id /\ ~RowExists(d))
          => /\ EntriesOf(d)' \subseteq EntriesOf(d)
             /\ \A r \in DOMAIN document_chunks' :
                  r.document_id = d => r \in DOMAIN document_chunks]_vars

\* the committed rows of table documents that belong to knowledge base kb_id
DocumentsOf(kb_id) ==
    {d \in DocIds : Visible(d) /\ documents[d].kb_id = kb_id}

\* C30: document_count of a knowledge base is the number of the document
\* rows of that knowledge base.
DocumentCountAgrees ==
    \A kb_id \in knowledge_bases :
        document_count[kb_id] = Cardinality(DocumentsOf(kb_id))

====
